---- MODULE Spec2Model ----
(***************************************************************************)
(* Run monitor of the Report RAG dashboard (class App, main.js): the       *)
(* polling timer, the asynchronous updateRunDetail cycles and what they    *)
(* render, against a backend that answers each fetch with a result or an   *)
(* error after an arbitrary delay.  Document ingest of the same class      *)
(* (uploadSelectedFiles, and handleDocumentSubmit of the page with the     *)
(* document form) with the requests it makes through APIClient, and how    *)
(* APIClient settles an operation for each answer of the backend, and the  *)
(* progress stepper createProgressStepper (components.js) builds.          *)
(***************************************************************************)
EXTENDS Integers, FiniteSets, Sequences, Bags, TLC

\* ------------------------------------------------------------- bounds
MaxCycles == 2      \* updateRunDetail invocations in flight at once
MaxTimers == 2      \* setInterval handles created in one behaviour
MaxJobs == 1        \* jobs of one backend run
MaxFiles == 2       \* files in one selection
MaxLoads == 2       \* loadDocuments invocations in flight at once
MaxMessages == 2    \* different error messages the backend gives for a file
MaxDone == 13       \* job_counts.done of a status given to the stepper
MaxRunning == 3     \* job_counts.running of a status given to the stepper

\* ---------------------------------------------------------- constants
Runs == {"A", "B"}              \* run ids the backend may hold
NULL == "null"                  \* JavaScript null / undefined
NoTimer == 0                    \* pollingInterval = null (handles are > 0)
Lifecycles == {"initializing", "running", "completed", "failed"}
\* File names, as sequences of characters: "a.t" and "b".
Files == {<<"a", ".", "t">>, <<"b">>}

VARIABLES
    runs,             \* the runs of the list loadRuns rendered
    currentRunId,     \* App.currentRunId
    pollingInterval,  \* App.pollingInterval: a timer handle or NoTimer
    timers,           \* the interval timers live in the browser
    nextTimer,        \* the handle the next setInterval returns
    cycles,           \* the suspended updateRunDetail invocations (a bag)
    view,             \* title, progress bar, stepper and job counts on display
    sections,         \* the run whose section progress is on display
    artifacts,        \* the run whose artifacts are on display
    latexContent,     \* App.latexContent (and the LaTeX preview)
    toast,            \* the last message given to showToast
    backend,          \* the backend's runs
    seen,             \* history: terminal lifecycles tested since viewRunDetail
    latexFetches,     \* history: getRunLatex calls by cycles of this observation
    lastEvent,        \* history: the step just taken
    selectedFiles,    \* App.selectedFiles
    uploadBtnDisabled,\* disabled attribute of #upload-btn
    upload,           \* the uploadSelectedFiles invocation, and what it sent
    calls,            \* history: requests of the latest uploadSelectedFiles
    listLoads,        \* loadDocuments invocations awaiting listDocuments
    documentsList,    \* content of #documents-list
    outcome,          \* history: what the latest uploadSelectedFiles reported
    form,             \* the fields of #document-form (handleDocumentSubmit)
    http,             \* an APIClient operation and the answer fetch gets for it
    settled,          \* what the promise of that operation settled with
    stepperStatus,    \* the status given to createProgressStepper
    stepper           \* the classes of the steps of the stepper it returned

\* The run monitor's own variables, and the ingest's own.
monitorVars == <<runs, currentRunId, pollingInterval, timers, nextTimer, cycles,
                 view, sections, artifacts, latexContent, backend, seen,
                 latexFetches>>
ingestVars == <<selectedFiles, uploadBtnDisabled, upload, calls, listLoads,
                documentsList, outcome>>
clientVars == <<http, settled>>
stepperVars == <<stepperStatus, stepper>>

vars == <<runs, currentRunId, pollingInterval, timers, nextTimer, cycles, view,
          sections, artifacts, latexContent, toast, backend, seen,
          latexFetches, lastEvent, selectedFiles, uploadBtnDisabled, upload,
          calls, listLoads, documentsList, outcome, form, http, settled,
          stepperStatus, stepper>>

\* An updateRunDetail invocation that has returned.
Done == [pc |-> "done", run |-> NULL, req |-> NULL, status |-> NULL, stale |-> FALSE]
NoView == [title |-> NULL, progress |-> 0, done |-> 0]

InFlight == BagCardinality(cycles)
Put(b, cy) == IF cy = Done THEN b ELSE b (+) SetToBag({cy})
Take(b, cy) == b (-) SetToBag({cy})
Copies(b, cy) == IF cy \in DOMAIN b THEN b[cy] ELSE 0

\* History: the invocations in flight when a new observation starts belong
\* to an earlier observation from then on.
MarkStale(b) ==
    LET S == {[cy EXCEPT !.stale = TRUE] : cy \in BagToSet(b)}
    IN [x \in S |-> Copies(b, x) + Copies(b, [x EXCEPT !.stale = FALSE])]

\* progress_percent of a RunStatus with `done` jobs done.
Percent(done) == (done * 100) \div MaxJobs

\* ------------------------------------------------------------ backend
\* GET /runs/{id}: status and job_counts.done of the RunStatus body.
RunStatus(r) == backend[r]

BackendProgress(r) ==
    /\ r \in runs
    /\ backend[r].status \in {"initializing", "running"}
    /\ backend[r].done < MaxJobs
    /\ backend' = [backend EXCEPT ![r] =
                      [status |-> "running", done |-> backend[r].done + 1]]
    /\ lastEvent' = "backend"
    /\ UNCHANGED <<runs, currentRunId, pollingInterval, timers, nextTimer,
                   cycles, view, sections, artifacts, latexContent, toast,
                   seen, latexFetches>>

BackendComplete(r) ==
    /\ r \in runs
    /\ backend[r].status = "running"
    /\ backend[r].done = MaxJobs
    /\ backend' = [backend EXCEPT ![r].status = "completed"]
    /\ lastEvent' = "backend"
    /\ UNCHANGED <<runs, currentRunId, pollingInterval, timers, nextTimer,
                   cycles, view, sections, artifacts, latexContent, toast,
                   seen, latexFetches>>

BackendFail(r) ==
    /\ r \in runs
    /\ backend[r].status \in {"initializing", "running"}
    /\ backend' = [backend EXCEPT ![r].status = "failed"]
    /\ lastEvent' = "backend"
    /\ UNCHANGED <<runs, currentRunId, pollingInterval, timers, nextTimer,
                   cycles, view, sections, artifacts, latexContent, toast,
                   seen, latexFetches>>

\* ------------------------------------------------------------ client
\* APIClient.getRunStatus(runId): one GET /runs/{runId}; the suspended call
\* carries the body the backend answers with, should the fetch succeed.
getRunStatus(runId) ==
    [pc |-> "status", run |-> runId, req |-> runId,
     status |-> RunStatus(runId), stale |-> FALSE]

\* APIClient.getDetailedProgress(runId): one GET /runs/{runId}/detailed-progress.
getDetailedProgress(cy, runId) == [cy EXCEPT !.pc = "progress", !.req = runId]

\* APIClient.getRunLatex(runId): one GET /runs/{runId}/latex.
getRunLatex(cy, runId) ==
    [cy EXCEPT !.pc = "latex", !.req = runId, !.status = NULL]

\* APIClient.getRunArtifacts(runId): one GET /runs/{runId}/artifacts.
getRunArtifacts(cy, runId) ==
    [cy EXCEPT !.pc = "artifacts", !.req = runId, !.status = NULL]

\* The operations class APIClient defines.
APIClientOperations ==
    {"request", "uploadDocument", "uploadDocumentFile",
     "uploadDocumentsBatch", "listDocuments", "deleteDocument", "createRun",
     "listRuns", "startRun", "getRunStatus", "getRunArtifacts",
     "getRunLatex", "deleteRun", "healthCheck"}

\* The window.api operation a suspended cycle has called.
CycleCall(cy) ==
    CASE cy.pc = "status" -> "getRunStatus"
      [] cy.pc = "progress" -> "getDetailedProgress"
      [] cy.pc = "latex" -> "getRunLatex"
      [] cy.pc = "artifacts" -> "getRunArtifacts"

\* ----------------------------------------------------------- monitor
\* Variant of stopPolling that does not clear the interval.
stopPollingKeepsTimer(ts, h) == ts

\* stopPolling(): clearInterval on the stored handle, if any.
stopPolling(ts, h) == IF h # NoTimer THEN ts \ {h} ELSE ts

\* Variant of startPolling that leaves out stopPolling().
startPollingNoStop(ts, h, new) == ts \cup {new}

\* startPolling(): stopPolling(), then setInterval; the timers alive after it.
startPolling(ts, h, new) == stopPolling(ts, h) \cup {new}

\* Variant of IsTerminal that never ends polling.
IsTerminalNever(s) == FALSE

\* The test of updateRunDetail that ends polling and loads the LaTeX.
IsTerminal(s) == s.status = "completed"

\* loadArtifacts() up to its await: returns at once when no run is observed.
loadArtifacts(cy) ==
    IF currentRunId = NULL THEN Done ELSE getRunArtifacts(cy, currentRunId)

\* loadLatex() up to its await; with no run observed it returns and
\* updateRunDetail goes on to loadArtifacts().
loadLatex(cy) ==
    IF currentRunId = NULL THEN loadArtifacts(cy) ELSE getRunLatex(cy, currentRunId)

\* viewRunDetail(runId): startPolling(), then updateRunDetail() up to its
\* first await.
viewRunDetail(r) ==
    /\ r \in runs
    /\ nextTimer <= MaxTimers
    /\ InFlight < MaxCycles
    /\ currentRunId' = r
    /\ timers' = startPolling(timers, pollingInterval, nextTimer)
    /\ pollingInterval' = nextTimer
    /\ nextTimer' = nextTimer + 1
    /\ cycles' = Put(MarkStale(cycles), getRunStatus(r))
    /\ seen' = {}
    /\ latexFetches' = 0
    /\ lastEvent' = IF pollingInterval = NoTimer THEN "view" ELSE "review"
    /\ UNCHANGED <<runs, view, sections, artifacts, latexContent, toast, backend>>

\* The View button of a run card: the runs list, and with it the button,
\* is on display only while no run detail is shown.
viewFromList(r) ==
    /\ currentRunId = NULL
    /\ viewRunDetail(r)

\* Variant of hideRunDetail that leaves the timer running.
hideRunDetailKeepsPolling ==
    /\ currentRunId' = NULL
    /\ lastEvent' = "hide"
    /\ UNCHANGED <<runs, pollingInterval, timers, nextTimer, cycles, view,
                   sections, artifacts, latexContent, toast, backend, seen,
                   latexFetches>>

\* hideRunDetail()
hideRunDetail ==
    /\ timers' = stopPolling(timers, pollingInterval)
    /\ pollingInterval' = NoTimer
    /\ currentRunId' = NULL
    /\ lastEvent' = "hide"
    /\ UNCHANGED <<runs, nextTimer, cycles, view, sections, artifacts,
                   latexContent, toast, backend, seen, latexFetches>>

\* downloadLatex(): the file it saves, report_<currentRunId>.tex with the
\* cached LaTeX, when there is any.
downloadLatex ==
    [saved |-> latexContent # NULL,
     filename |-> currentRunId,
     content |-> latexContent]

\* The setInterval callback of timer t: updateRunDetail() up to its first
\* await; it returns at once when no run is observed.
Tick(t) ==
    /\ t \in timers
    /\ InFlight < MaxCycles
    /\ cycles' = IF currentRunId = NULL THEN cycles
                 ELSE Put(cycles, getRunStatus(currentRunId))
    /\ lastEvent' = "tick"
    /\ UNCHANGED <<runs, currentRunId, pollingInterval, timers, nextTimer,
                   view, sections, artifacts, latexContent, toast, backend,
                   seen, latexFetches>>

\* Variant of Catch that shows no toast.
CatchSilent(cy, ev) ==
    /\ timers' = stopPolling(timers, pollingInterval)
    /\ pollingInterval' = NoTimer
    /\ cycles' = Take(cycles, cy)
    /\ lastEvent' = ev
    /\ UNCHANGED <<runs, currentRunId, nextTimer, view, sections, artifacts,
                   latexContent, toast, backend, seen, latexFetches>>

\* The catch branch of updateRunDetail: error toast, stopPolling().
Catch(cy, ev) ==
    /\ toast' = "Failed to load run status"
    /\ timers' = stopPolling(timers, pollingInterval)
    /\ pollingInterval' = NoTimer
    /\ cycles' = Take(cycles, cy)
    /\ lastEvent' = ev
    /\ UNCHANGED <<runs, currentRunId, nextTimer, view, sections, artifacts,
                   latexContent, backend, seen, latexFetches>>

\* Variant of StatusOk that loads the artifacts before the detailed progress.
StatusOkArtifactsFirst(cy) ==
    /\ cy.pc = "status"
    /\ cycles' = Put(Take(cycles, cy), loadArtifacts(cy))
    /\ lastEvent' = "statusOk"
    /\ UNCHANGED <<runs, currentRunId, pollingInterval, timers, nextTimer,
                   view, sections, artifacts, latexContent, toast, backend,
                   seen, latexFetches>>

\* Variant of StatusOk that renders the title before getDetailedProgress
\* is awaited.
StatusOkRendersFirst(cy) ==
    /\ cy.pc = "status"
    /\ view' = [view EXCEPT !.title = cy.run]
    /\ cycles' = Put(Take(cycles, cy), getDetailedProgress(cy, currentRunId))
    /\ lastEvent' = "statusOk"
    /\ UNCHANGED <<runs, currentRunId, pollingInterval, timers, nextTimer,
                   sections, artifacts, latexContent, toast, backend,
                   seen, latexFetches>>

\* getRunStatus resolves: updateRunDetail calls getDetailedProgress.
StatusOk(cy) ==
    /\ cy.pc = "status"
    /\ cycles' = Put(Take(cycles, cy), getDetailedProgress(cy, currentRunId))
    /\ lastEvent' = "statusOk"
    /\ UNCHANGED <<runs, currentRunId, pollingInterval, timers, nextTimer,
                   view, sections, artifacts, latexContent, toast, backend,
                   seen, latexFetches>>

\* getRunStatus rejects.
StatusErr(cy) ==
    /\ cy.pc = "status"
    /\ Catch(cy, "statusErr")

\* getDetailedProgress resolves: render, then the completed test.
ProgressOk(cy) ==
    LET s == cy.status
        next == IF IsTerminal(s) THEN loadLatex(cy) ELSE loadArtifacts(cy)
    IN
    /\ cy.pc = "progress"
    /\ cy.req # NULL
    /\ view' = [title |-> cy.run, progress |-> Percent(s.done), done |-> s.done]
    /\ sections' = cy.req
    /\ IF IsTerminal(s)
       THEN /\ timers' = stopPolling(timers, pollingInterval)
            /\ pollingInterval' = NoTimer
       ELSE UNCHANGED <<timers, pollingInterval>>
    /\ cycles' = Put(Take(cycles, cy), next)
    /\ seen' = seen \cup ({s.status} \cap {"completed", "failed"})
    /\ latexFetches' = IF next.pc = "latex" /\ ~cy.stale
                       THEN latexFetches + 1 ELSE latexFetches
    /\ lastEvent' = "progressOk"
    /\ UNCHANGED <<runs, currentRunId, nextTimer, artifacts, latexContent,
                   toast, backend>>

\* getDetailedProgress rejects (always, for a request made with no run id).
ProgressErr(cy) ==
    /\ cy.pc = "progress"
    /\ Catch(cy, "progressErr")

\* getRunLatex resolves inside loadLatex; updateRunDetail goes on to loadArtifacts.
LatexOk(cy) ==
    /\ cy.pc = "latex"
    /\ latexContent' = cy.req
    /\ cycles' = Put(Take(cycles, cy), loadArtifacts(cy))
    /\ lastEvent' = "latexOk"
    /\ UNCHANGED <<runs, currentRunId, pollingInterval, timers, nextTimer,
                   view, sections, artifacts, toast, backend, seen, latexFetches>>

\* Variant of LatexErr that restarts polling to try again.
LatexErrRestartsPolling(cy) ==
    /\ cy.pc = "latex"
    /\ nextTimer <= MaxTimers
    /\ timers' = startPolling(timers, pollingInterval, nextTimer)
    /\ pollingInterval' = nextTimer
    /\ nextTimer' = nextTimer + 1
    /\ cycles' = Put(Take(cycles, cy), loadArtifacts(cy))
    /\ lastEvent' = "latexErr"
    /\ UNCHANGED <<runs, currentRunId, view, sections, artifacts, latexContent,
                   toast, backend, seen, latexFetches>>

\* getRunLatex rejects: logged inside loadLatex.
LatexErr(cy) ==
    /\ cy.pc = "latex"
    /\ cycles' = Put(Take(cycles, cy), loadArtifacts(cy))
    /\ lastEvent' = "latexErr"
    /\ UNCHANGED <<runs, currentRunId, pollingInterval, timers, nextTimer,
                   view, sections, artifacts, latexContent, toast, backend,
                   seen, latexFetches>>

\* getRunArtifacts resolves; the display changes when the outline is not empty.
ArtifactsOk(cy, outline) ==
    /\ cy.pc = "artifacts"
    /\ artifacts' = IF outline THEN cy.req ELSE artifacts
    /\ cycles' = Take(cycles, cy)
    /\ lastEvent' = "artifactsOk"
    /\ UNCHANGED <<runs, currentRunId, pollingInterval, timers, nextTimer,
                   view, sections, latexContent, toast, backend, seen,
                   latexFetches>>

\* Variant of ArtifactsErr whose error reaches the catch branch of
\* updateRunDetail.
ArtifactsErrThrows(cy) ==
    /\ cy.pc = "artifacts"
    /\ Catch(cy, "artifactsErr")

\* getRunArtifacts rejects: logged inside loadArtifacts.
ArtifactsErr(cy) ==
    /\ cy.pc = "artifacts"
    /\ cycles' = Take(cycles, cy)
    /\ lastEvent' = "artifactsErr"
    /\ UNCHANGED <<runs, currentRunId, pollingInterval, timers, nextTimer,
                   view, sections, artifacts, latexContent, toast, backend,
                   seen, latexFetches>>

\* ------------------------------------------------------------- ingest
\* App.selectedFiles when null or undefined. An empty array, which
\* uploadSelectedFiles treats alike, is never stored: the listeners call
\* handleFileSelection with at least one file.
NoFiles == <<>>

\* uploadSelectedFiles before its first call.
NoUpload == [pc |-> "idle", files |-> <<>>, response |-> [none |-> TRUE],
             report |-> [none |-> TRUE]]

\* String.prototype.lastIndexOf (0-based, -1 when absent).
LastIndexOf(str, ch) ==
    LET I == {i \in 1..Len(str) : str[i] = ch}
    IN IF I = {} THEN -1 ELSE (CHOOSE i \in I : \A j \in I : j <= i) - 1

\* String.prototype.substring(0, end): a negative end counts as 0.
Substring0(str, end) == SubSeq(str, 1, IF end < 0 THEN 0 ELSE end)

\* The title uploadSelectedFiles gives a single file: its name up to the
\* last dot, or the whole name when that is empty.
FileTitle(name) ==
    LET stem == Substring0(name, LastIndexOf(name, "."))
    IN IF stem = <<>> THEN name ELSE stem

\* APIClient.listDocuments: one GET.
listDocuments == [method |-> "GET", url |-> "/documents/list", form |-> <<>>]

\* Variant of uploadDocumentFile that never sends the year.
uploadDocumentFileNoYear(file, title, author, year) ==
    << [method |-> "POST",
        url |-> "/documents/upload",
        form |-> <<<<"file", file>>, <<"title", title>>>>
                 \o (IF author # <<>> THEN <<<<"author", author>>>> ELSE <<>>)] >>

\* APIClient.uploadDocumentFile: the requests it makes, with the form data.
\* The empty sequence stands for '' and null, both falsy.
uploadDocumentFile(file, title, author, year) ==
    << [method |-> "POST",
        url |-> "/documents/upload",
        form |-> <<<<"file", file>>, <<"title", title>>>>
                 \o (IF author # <<>> THEN <<<<"author", author>>>> ELSE <<>>)
                 \o (IF year # <<>> THEN <<<<"year", year>>>> ELSE <<>>)] >>

\* Variant of uploadDocumentsBatch that posts each file on its own.
uploadDocumentsBatchPerFile(files) ==
    [i \in 1..Len(files) |->
        [method |-> "POST",
         url |-> "/documents/upload",
         form |-> <<<<"file", files[i]>>>>]]

\* APIClient.uploadDocumentsBatch: the requests it makes, with the form data.
uploadDocumentsBatch(files) ==
    << [method |-> "POST",
        url |-> "/documents/upload-batch",
        form |-> [i \in 1..Len(files) |-> <<"files", files[i]>>]] >>

\* The selections the file input or a drop can deliver: at least one file.
Selections ==
    UNION {[1..n -> Files] : n \in 1..MaxFiles}

\* handleFileSelection(fileList), from the change and drop listeners.
handleFileSelection(files) ==
    /\ selectedFiles' = files
    /\ toast' = "file(s) selected"
    /\ lastEvent' = "select"
    /\ UNCHANGED <<uploadBtnDisabled, upload, calls, listLoads, documentsList,
                   outcome>>
    /\ UNCHANGED monitorVars

\* clearFileSelection(), from the clear button.
clearFileSelection ==
    /\ selectedFiles' = NoFiles
    /\ toast' = "Selection cleared"
    /\ lastEvent' = "clear"
    /\ UNCHANGED <<uploadBtnDisabled, upload, calls, listLoads, documentsList,
                   outcome>>
    /\ UNCHANGED monitorVars

\* Variant of uploadSelectedFiles without the check for a selection.
uploadSelectedFilesNoCheck ==
    /\ ~uploadBtnDisabled
    /\ listLoads < MaxLoads
    /\ uploadBtnDisabled' = TRUE
    /\ outcome' = NULL
    /\ IF Len(selectedFiles) = 1
       THEN /\ calls' = uploadDocumentFile(selectedFiles[1],
                            FileTitle(selectedFiles[1]), <<>>, <<>>)
            /\ upload' = [NoUpload EXCEPT !.pc = "single",
                                          !.files = selectedFiles]
            /\ UNCHANGED toast
       ELSE /\ toast' = "Uploading files"
            /\ calls' = uploadDocumentsBatch(selectedFiles)
            /\ upload' = [NoUpload EXCEPT !.pc = "batch",
                                          !.files = selectedFiles]
    /\ lastEvent' = "upload"
    /\ UNCHANGED <<selectedFiles, listLoads, documentsList>>
    /\ UNCHANGED monitorVars

\* uploadSelectedFiles() up to its await, from a click on the upload
\* button (a disabled button receives no click).
uploadSelectedFiles ==
    /\ ~uploadBtnDisabled
    /\ listLoads < MaxLoads
    /\ IF selectedFiles = NoFiles \/ Len(selectedFiles) = 0
       THEN /\ toast' = "No files selected"
            /\ outcome' = "No files selected"
            /\ upload' = [NoUpload EXCEPT !.pc = "rejected"]
            /\ calls' = <<>>
            /\ UNCHANGED uploadBtnDisabled
       ELSE /\ uploadBtnDisabled' = TRUE
            /\ outcome' = NULL
            /\ IF Len(selectedFiles) = 1
               THEN /\ calls' = uploadDocumentFile(selectedFiles[1],
                                    FileTitle(selectedFiles[1]), <<>>, <<>>)
                    /\ upload' = [NoUpload EXCEPT !.pc = "single",
                                                  !.files = selectedFiles]
                    /\ UNCHANGED toast
               ELSE /\ toast' = "Uploading files"
                    /\ calls' = uploadDocumentsBatch(selectedFiles)
                    /\ upload' = [NoUpload EXCEPT !.pc = "batch",
                                                  !.files = selectedFiles]
    /\ lastEvent' = "upload"
    /\ UNCHANGED <<selectedFiles, listLoads, documentsList>>
    /\ UNCHANGED monitorVars

\* The body of a 2xx answer to POST /documents/upload-batch for `files`:
\* one result per file, in the order of the request, each either ok or an
\* error with a message (message k of the backend; 0 when ok); successful
\* and failed count them.
BatchResponses(files) ==
    LET n == Len(files)
        Tags == 0..MaxMessages
        Body(tag) ==
            LET oks == {i \in 1..n : tag[i] = 0}
            IN [successful |-> Cardinality(oks),
                failed |-> n - Cardinality(oks),
                results |-> [i \in 1..n |->
                                [file |-> files[i],
                                 ok |-> i \in oks,
                                 message |-> tag[i]]]]
    IN {Body(tag) : tag \in [1..n -> Tags]}

\* The body of a 2xx answer to POST /documents/upload.
SingleResponses == {[chunk_count |-> 1]}

\* The bodies the backend may answer the upload in flight with.
UploadResponses ==
    IF upload.pc = "batch" THEN BatchResponses(upload.files)
    ELSE SingleResponses

\* Variant of BatchReport that reports every result as a success.
BatchReportCountsResults(result) ==
    IF result.failed = 0
    THEN [successful |-> Len(result.results), failed |-> 0, results |-> <<>>]
    ELSE [successful |-> Len(result.results), failed |-> result.failed,
          results |-> result.results]

\* Variant of BatchReport that shows the failed results only.
BatchReportFailuresOnly(result) ==
    IF result.failed = 0
    THEN [successful |-> result.successful, failed |-> 0, results |-> <<>>]
    ELSE [successful |-> result.successful, failed |-> result.failed,
          results |-> SelectSeq(result.results, LAMBDA x : ~x.ok)]

\* What uploadSelectedFiles shows of a batch result: the count in the
\* success toast, or both counts in the warning toast and the results in
\* the console.
BatchReport(result) ==
    IF result.failed = 0
    THEN [successful |-> result.successful, failed |-> 0, results |-> <<>>]
    ELSE [successful |-> result.successful, failed |-> result.failed,
          results |-> result.results]

\* Variant of UploadOk that treats a batch result with failed files as a
\* failed upload.
UploadOkThrowsOnPartial(result) ==
    /\ upload.pc \in {"single", "batch"}
    /\ result \in UploadResponses
    /\ IF upload.pc = "batch" /\ result.failed > 0
       THEN /\ toast' = "Upload failed"
            /\ outcome' = "Upload failed"
            /\ upload' = [upload EXCEPT !.pc = "failed", !.response = result]
            /\ UNCHANGED <<selectedFiles, calls, listLoads>>
       ELSE /\ outcome' = IF upload.pc = "single" THEN "uploaded"
                          ELSE "all uploaded"
            /\ selectedFiles' = NoFiles
            /\ toast' = "Selection cleared"
            /\ calls' = Append(calls, listDocuments)
            /\ listLoads' = listLoads + 1
            /\ upload' = [upload EXCEPT
                            !.pc = "ok",
                            !.response = result,
                            !.report = IF upload.pc = "batch"
                                       THEN BatchReport(result)
                                       ELSE [chunk_count |-> result.chunk_count]]
    /\ uploadBtnDisabled' = FALSE
    /\ lastEvent' = "uploadOk"
    /\ UNCHANGED documentsList
    /\ UNCHANGED monitorVars

\* The upload request resolves with the body `result`: result toast,
\* clearFileSelection(), loadDocuments(), button enabled.
UploadOk(result) ==
    /\ upload.pc \in {"single", "batch"}
    /\ result \in UploadResponses
    /\ outcome' = IF upload.pc = "single" THEN "uploaded"
                  ELSE IF result.failed = 0 THEN "all uploaded"
                  ELSE "some failed"
    /\ selectedFiles' = NoFiles
    /\ toast' = "Selection cleared"
    /\ calls' = Append(calls, listDocuments)
    /\ listLoads' = listLoads + 1
    /\ uploadBtnDisabled' = FALSE
    /\ upload' = [upload EXCEPT
                    !.pc = "ok",
                    !.response = result,
                    !.report = IF upload.pc = "batch" THEN BatchReport(result)
                               ELSE [chunk_count |-> result.chunk_count]]
    /\ lastEvent' = "uploadOk"
    /\ UNCHANGED documentsList
    /\ UNCHANGED monitorVars

\* Variant of UploadErr without the finally block.
UploadErrKeepsDisabled ==
    /\ upload.pc \in {"single", "batch"}
    /\ toast' = "Upload failed"
    /\ outcome' = "Upload failed"
    /\ upload' = [upload EXCEPT !.pc = "failed"]
    /\ lastEvent' = "uploadErr"
    /\ UNCHANGED <<selectedFiles, uploadBtnDisabled, calls, listLoads,
                   documentsList>>
    /\ UNCHANGED monitorVars

\* The upload request rejects: error toast, button enabled.
UploadErr ==
    /\ upload.pc \in {"single", "batch"}
    /\ toast' = "Upload failed"
    /\ outcome' = "Upload failed"
    /\ uploadBtnDisabled' = FALSE
    /\ upload' = [upload EXCEPT !.pc = "failed"]
    /\ lastEvent' = "uploadErr"
    /\ UNCHANGED <<selectedFiles, calls, listLoads, documentsList>>
    /\ UNCHANGED monitorVars

\* listDocuments resolves in loadDocuments: the cards or the empty notice.
ListOk(content) ==
    /\ listLoads > 0
    /\ listLoads' = listLoads - 1
    /\ documentsList' = content
    /\ lastEvent' = "listOk"
    /\ UNCHANGED <<selectedFiles, uploadBtnDisabled, upload, calls, outcome,
                   toast>>
    /\ UNCHANGED monitorVars

\* listDocuments rejects in loadDocuments: the failure notice.
ListErr ==
    /\ listLoads > 0
    /\ listLoads' = listLoads - 1
    /\ documentsList' = "Failed to load documents"
    /\ lastEvent' = "listErr"
    /\ UNCHANGED <<selectedFiles, uploadBtnDisabled, upload, calls, outcome,
                   toast>>
    /\ UNCHANGED monitorVars

\* After the constructor: no selection, loadDocuments() of init() in flight.
InitIngest ==
    /\ selectedFiles = NoFiles
    /\ uploadBtnDisabled = FALSE
    /\ upload = NoUpload
    /\ calls = <<>>
    /\ listLoads = 1
    /\ documentsList = "loading"
    /\ outcome = NULL

NextIngest ==
    /\ UNCHANGED <<form, clientVars, stepperVars>>
    /\ \/ \E files \in Selections : handleFileSelection(files)
       \/ clearFileSelection
       \/ uploadSelectedFiles
       \/ \E result \in UploadResponses : UploadOk(result)
       \/ UploadErr
       \/ \E content \in {"cards", "No documents uploaded yet"} : ListOk(content)
       \/ ListErr

\* ------------------------------------------------------ document form
\* The page with the document form: handleFileUpload and
\* handleDocumentSubmit take the place of handleFileSelection and
\* uploadSelectedFiles.

\* Field values, as sequences of characters.
Titles == {<<>>, <<" ">>, <<"T">>, <<" ", "T">>}
Authors == {<<>>, <<"A">>, <<"A", " ">>}
Years == {<<>>, <<"1">>}
Contents == {<<>>, <<"C">>}

\* The form after reset().
EmptyForm == [title |-> <<>>, author |-> <<>>, year |-> <<>>, content |-> <<>>]

\* String.prototype.trim, with the space as the only white space.
Trim(str) ==
    LET I == {i \in 1..Len(str) : str[i] # " "}
    IN IF I = {} THEN <<>>
       ELSE SubSeq(str, CHOOSE i \in I : \A j \in I : i <= j,
                        CHOOSE i \in I : \A j \in I : j <= i)

\* file.name.replace(/\.[^/.]+$/, ''): the name without its last
\* extension, when the last dot is followed by one or more characters
\* other than '/'.
StripExtension(name) ==
    LET dot == LastIndexOf(name, ".") + 1
    IN IF /\ dot >= 1
          /\ dot < Len(name)
          /\ \A i \in (dot + 1)..Len(name) : name[i] # "/"
       THEN SubSeq(name, 1, dot - 1)
       ELSE name

\* parseInt of a field value: its leading decimal digits, NaN without any.
DigitValue(ch) ==
    CASE ch = "0" -> 0 [] ch = "1" -> 1 [] ch = "2" -> 2 [] ch = "3" -> 3
      [] ch = "4" -> 4 [] ch = "5" -> 5 [] ch = "6" -> 6 [] ch = "7" -> 7
      [] ch = "8" -> 8 [] ch = "9" -> 9 [] OTHER -> -1

RECURSIVE ParseDigits(_, _, _)
ParseDigits(str, i, acc) ==
    IF i > Len(str) \/ DigitValue(str[i]) < 0 THEN acc
    ELSE ParseDigits(str, i + 1, acc * 10 + DigitValue(str[i]))

ParseInt(str) ==
    IF str = <<>> \/ DigitValue(str[1]) < 0 THEN "NaN"
    ELSE ParseDigits(str, 1, 0)

\* APIClient.uploadDocument: the request it makes, with its JSON body.
uploadDocument(data) ==
    << [method |-> "POST",
        url |-> "/documents/upsert",
        form |-> <<>>,
        body |-> [title |-> data.title,
                  author |-> data.author,
                  year |-> IF data.year # <<>> THEN ParseInt(data.year)
                           ELSE NULL,
                  content |-> data.content,
                  embeddings |-> NULL]] >>

\* The files the change and drop listeners hand over: the first one only.
Picks == {<<f>> : f \in Files}

\* handleFileUpload(file): stores the file and, for one file, puts its
\* name without extension into an empty title field. The preview of
\* .txt, .md and .pdf files in the content field applies to no name of
\* Files.
handleFileUpload(files) ==
    /\ selectedFiles' = files
    /\ IF Len(files) = 1
       THEN /\ form' = IF form.title = <<>>
                       THEN [form EXCEPT !.title = StripExtension(files[1])]
                       ELSE form
            /\ toast' = "File selected"
       ELSE /\ form' = [EmptyForm EXCEPT !.content = <<"f", "i", "l", "e", "s">>]
            /\ toast' = "files selected for batch upload"
    /\ lastEvent' = "pick"
    /\ UNCHANGED <<uploadBtnDisabled, upload, calls, listLoads, documentsList,
                   outcome>>
    /\ UNCHANGED monitorVars

\* The user edits the fields of the form.
editForm(title, author, year, content) ==
    /\ form' = [title |-> title, author |-> author, year |-> year,
                content |-> content]
    /\ lastEvent' = "edit"
    /\ UNCHANGED <<selectedFiles, uploadBtnDisabled, upload, calls, listLoads,
                   documentsList, outcome, toast>>
    /\ UNCHANGED monitorVars

\* Variant of SubmitError that does not require content for a text upload.
SubmitErrorNoContentCheck(files, title, content) ==
    IF Len(files) > 1 THEN NULL
    ELSE IF title = <<>> THEN "Title is required"
    ELSE NULL

\* The validation of handleDocumentSubmit: the message it rejects the
\* trimmed title and content with, or NULL.
SubmitError(files, title, content) ==
    IF Len(files) > 1 THEN NULL
    ELSE IF Len(files) = 1
         THEN IF title = <<>> THEN "Title is required" ELSE NULL
    ELSE IF title = <<>> THEN "Title is required"
    ELSE IF content = <<>> THEN "Content is required"
    ELSE NULL

\* handleDocumentSubmit(e) up to its await. One submission at a time and
\* at most MaxLoads list loads in flight.
handleDocumentSubmit ==
    /\ upload.pc \notin {"single", "batch", "text"}
    /\ listLoads < MaxLoads
    /\ LET title == Trim(form.title)
           author == Trim(form.author)
           year == form.year
           content == Trim(form.content)
           error == SubmitError(selectedFiles, title, content)
       IN IF error # NULL
          THEN /\ toast' = error
               /\ outcome' = error
               /\ upload' = [NoUpload EXCEPT !.pc = "rejected"]
               /\ calls' = <<>>
          ELSE /\ outcome' = NULL
               /\ IF Len(selectedFiles) > 1
                  THEN /\ toast' = "Uploading files"
                       /\ calls' = uploadDocumentsBatch(selectedFiles)
                       /\ upload' = [NoUpload EXCEPT !.pc = "batch",
                                                     !.files = selectedFiles]
                  ELSE IF Len(selectedFiles) = 1
                  THEN /\ calls' = uploadDocumentFile(selectedFiles[1], title,
                                                      author, year)
                       /\ upload' = [NoUpload EXCEPT !.pc = "single",
                                                     !.files = selectedFiles]
                       /\ UNCHANGED toast
                  ELSE /\ calls' = uploadDocument([title |-> title,
                                                   author |-> author,
                                                   year |-> year,
                                                   content |-> content])
                       /\ upload' = [NoUpload EXCEPT !.pc = "text"]
                       /\ UNCHANGED toast
    /\ lastEvent' = "submit"
    /\ UNCHANGED <<selectedFiles, uploadBtnDisabled, listLoads, documentsList,
                   form>>
    /\ UNCHANGED monitorVars

\* The bodies the backend may answer the submission in flight with.
SubmitResponses ==
    IF upload.pc = "batch" THEN BatchResponses(upload.files)
    ELSE SingleResponses

\* The request of handleDocumentSubmit resolves with the body `result`:
\* result toast, form reset, selection dropped, loadDocuments().
SubmitOk(result) ==
    /\ upload.pc \in {"single", "batch", "text"}
    /\ result \in SubmitResponses
    /\ outcome' = IF upload.pc # "batch" THEN "uploaded"
                  ELSE IF result.failed = 0 THEN "all uploaded"
                  ELSE "some failed"
    /\ toast' = outcome'
    /\ form' = EmptyForm
    /\ selectedFiles' = NoFiles
    /\ calls' = Append(calls, listDocuments)
    /\ listLoads' = listLoads + 1
    /\ upload' = [upload EXCEPT
                    !.pc = "ok",
                    !.response = result,
                    !.report = IF upload.pc = "batch" THEN BatchReport(result)
                               ELSE [chunk_count |-> result.chunk_count]]
    /\ lastEvent' = "submitOk"
    /\ UNCHANGED <<uploadBtnDisabled, documentsList>>
    /\ UNCHANGED monitorVars

\* The request of handleDocumentSubmit rejects: error toast.
SubmitErr ==
    /\ upload.pc \in {"single", "batch", "text"}
    /\ toast' = "Failed to upload document"
    /\ outcome' = "Failed to upload document"
    /\ upload' = [upload EXCEPT !.pc = "failed"]
    /\ lastEvent' = "submitErr"
    /\ UNCHANGED <<selectedFiles, uploadBtnDisabled, calls, listLoads,
                   documentsList, form>>
    /\ UNCHANGED monitorVars

NextForm ==
    /\ UNCHANGED <<clientVars, stepperVars>>
    /\ \/ \E files \in Picks : handleFileUpload(files)
       \/ \E title \in Titles, author \in Authors, year \in Years,
             content \in Contents : editForm(title, author, year, content)
       \/ handleDocumentSubmit
       \/ \E result \in SubmitResponses : SubmitOk(result)
       \/ SubmitErr
       \/ \E content \in {"cards", "No documents uploaded yet"} :
             ListOk(content) /\ UNCHANGED form
       \/ ListErr /\ UNCHANGED form

\* ---------------------------------------------------------- APIClient
\* The operations with a response handling of their own.
Operations == {"request", "uploadDocumentFile", "uploadDocumentsBatch"}

Statuses == {200, 404, 500}
ContentTypes == {"application/json", "text/html"}

\* What response.json() finds in the body: text that is not JSON, null, a
\* value that is no object, or an object: without detail, or with a detail
\* that is an empty string, a message, or a list of objects.
Bodies ==
    {[json |-> j, has |-> FALSE, detail |-> ""] :
        j \in {"unparseable", "null", "scalar", "object"}}
    \cup {[json |-> "object", has |-> TRUE, detail |-> d] :
            d \in {"", "Not found", "LIST"}}

\* The answers of fetch: a response, or a rejection (no connection).
Responses ==
    {[arrived |-> TRUE, status |-> st, type |-> ct, body |-> b] :
        st \in Statuses, ct \in ContentTypes, b \in Bodies}
    \cup {[arrived |-> FALSE, status |-> 0, type |-> "text/html",
           body |-> [json |-> "unparseable", has |-> FALSE, detail |-> ""]]}

\* Response.ok
Ok(response) == response.status >= 200 /\ response.status <= 299

Pending == [kind |-> "pending", error |-> "", message |-> <<>>, value |-> ""]
Throw(error, message) ==
    [kind |-> "throw", error |-> error, message |-> message, value |-> ""]
Return(value) ==
    [kind |-> "return", error |-> "", message |-> <<>>, value |-> value]

\* String(detail) of new Error(detail).
DetailText(detail) == IF detail = "LIST" THEN "[object Object]" ELSE detail

\* The non-2xx branch: const error = await response.json().catch(() =>
\* ({ detail: fallback })); throw new Error(error.detail || `HTTP ${status}`).
ThrowForStatus(response, fallback) ==
    LET b == response.body
    IN IF b.json = "unparseable" THEN Throw("Error", <<fallback>>)
       ELSE IF b.json = "null" THEN Throw("TypeError", <<"error is null">>)
       ELSE IF b.json = "object" /\ b.has /\ b.detail # ""
            THEN Throw("Error", <<DetailText(b.detail)>>)
       ELSE Throw("Error", <<"HTTP ", response.status>>)

\* await response.json() of a 2xx response.
Json(response) ==
    IF response.body.json = "unparseable"
    THEN Throw("SyntaxError", <<"Unexpected token">>)
    ELSE Return(response.body.json)

\* Variant of request that returns the parsed body of a non-2xx response.
requestReturnsErrorBody(response) ==
    IF ~response.arrived THEN Throw("TypeError", <<"Failed to fetch">>)
    ELSE IF ~Ok(response) /\ response.body.json = "unparseable"
         THEN ThrowForStatus(response, "Request failed")
    ELSE IF response.type = "application/json" THEN Json(response)
    ELSE Return("text")

\* APIClient.request after fetch: what its promise settles with.
request(response) ==
    IF ~response.arrived THEN Throw("TypeError", <<"Failed to fetch">>)
    ELSE IF ~Ok(response) THEN ThrowForStatus(response, "Request failed")
    ELSE IF response.type = "application/json" THEN Json(response)
    ELSE Return("text")

\* Variant of uploadDocumentFileSettle whose catch returns instead of
\* rethrowing.
uploadDocumentFileSwallows(response) ==
    IF ~response.arrived THEN Return("null")
    ELSE IF ~Ok(response) THEN ThrowForStatus(response, "Upload failed")
    ELSE IF response.body.json = "unparseable" THEN Return("null")
    ELSE Json(response)

\* APIClient.uploadDocumentFile after fetch.
uploadDocumentFileSettle(response) ==
    IF ~response.arrived THEN Throw("TypeError", <<"Failed to fetch">>)
    ELSE IF ~Ok(response) THEN ThrowForStatus(response, "Upload failed")
    ELSE Json(response)

\* APIClient.uploadDocumentsBatch after fetch.
uploadDocumentsBatchSettle(response) ==
    IF ~response.arrived THEN Throw("TypeError", <<"Failed to fetch">>)
    ELSE IF ~Ok(response) THEN ThrowForStatus(response, "Batch upload failed")
    ELSE Json(response)

NoCall ==
    [op |-> "none", fetches |-> 0,
     response |-> [arrived |-> FALSE, status |-> 0, type |-> "text/html",
                   body |-> [json |-> "unparseable", has |-> FALSE,
                             detail |-> ""]]]

\* An operation is called, makes its one fetch, and fetch gets its answer.
Call(op, response) ==
    /\ http' = [op |-> op, fetches |-> 1, response |-> response]
    /\ settled' = Pending
    /\ UNCHANGED <<monitorVars, ingestVars, form, toast, lastEvent,
                   stepperVars>>

\* The operation's promise settles.
Settle ==
    /\ http.op \in Operations
    /\ settled = Pending
    /\ settled' = CASE http.op = "request" -> request(http.response)
                    [] http.op = "uploadDocumentFile" ->
                          uploadDocumentFileSettle(http.response)
                    [] http.op = "uploadDocumentsBatch" ->
                          uploadDocumentsBatchSettle(http.response)
    /\ UNCHANGED <<monitorVars, ingestVars, form, toast, lastEvent, http,
                   stepperVars>>

NextClient ==
    \/ \E op \in Operations, response \in Responses : Call(op, response)
    \/ Settle

\* ----------------------------------------------------- progress stepper
\* The steps of the agent workflow.
steps == <<"Outline", "Retrieval", "Evidence", "Claims", "Draft", "Assembly">>

\* job_counts objects: done may be missing; running is another of its
\* counts.
NoJobCounts == [has_done |-> FALSE, done |-> 0, running |-> 0]
JobCounts ==
    {[has_done |-> FALSE, done |-> 0, running |-> r] : r \in 0..MaxRunning}
    \cup {[has_done |-> TRUE, done |-> d, running |-> r] :
            d \in 0..MaxDone, r \in 0..MaxRunning}

\* The statuses given to createProgressStepper: without job_counts, or
\* with one.
StepperStatuses ==
    {[has_job_counts |-> FALSE, job_counts |-> NoJobCounts]}
    \cup {[has_job_counts |-> TRUE, job_counts |-> jc] : jc \in JobCounts}

NotRendered == <<>>

\* Variant of stepProgress that also counts a step reached as done.
stepProgressInclusive(totalDone, index) ==
    IF totalDone >= index * 2 THEN "done"
    ELSE IF totalDone = index * 2 THEN "running"
    ELSE "pending"

\* const stepProgress = totalDone > index * 2 ? 'done'
\*     : totalDone === index * 2 ? 'running' : 'pending';
stepProgress(totalDone, index) ==
    IF totalDone > index * 2 THEN "done"
    ELSE IF totalDone = index * 2 THEN "running"
    ELSE "pending"

\* createProgressStepper(status): the class of each step, in order; the
\* step of index i of the code is element i + 1.
createProgressStepper(status) ==
    LET jobCounts == IF status.has_job_counts THEN status.job_counts
                     ELSE NoJobCounts
        totalDone == IF jobCounts.has_done /\ jobCounts.done # 0
                     THEN jobCounts.done ELSE 0
    IN [i \in 1..Len(steps) |-> stepProgress(totalDone, i - 1)]

\* The stepper is built for the status at hand.
renderStepper ==
    /\ stepper = NotRendered
    /\ stepper' = createProgressStepper(stepperStatus)
    /\ UNCHANGED <<monitorVars, ingestVars, form, clientVars, toast,
                   lastEvent, stepperStatus>>

NextStepper == renderStepper

\* ------------------------------------------------------ specification
InitApp ==
    /\ currentRunId = NULL
    /\ pollingInterval = NoTimer
    /\ timers = {}
    /\ nextTimer = 1
    /\ cycles = EmptyBag
    /\ view = NoView
    /\ sections = NULL
    /\ artifacts = NULL
    /\ latexContent = NULL
    /\ toast = NULL
    /\ backend = [r \in Runs |-> [status |-> "initializing", done |-> 0]]
    /\ seen = {}
    /\ latexFetches = 0
    /\ lastEvent = "init"
    /\ InitIngest
    /\ form = EmptyForm
    /\ http = NoCall
    /\ settled = Pending

\* No stepper built.
NoStepper ==
    /\ stepperStatus = [has_job_counts |-> FALSE, job_counts |-> NoJobCounts]
    /\ stepper = NotRendered

\* One run in the runs list.
Init == InitApp /\ runs = {"A"} /\ NoStepper

\* Two runs in the runs list.
InitTwo == InitApp /\ runs = Runs /\ NoStepper

\* Any status, about to be given to createProgressStepper.
InitStepper ==
    /\ InitApp
    /\ runs = {"A"}
    /\ stepperStatus \in StepperStatuses
    /\ stepper = NotRendered

Next ==
    /\ UNCHANGED <<ingestVars, form, clientVars, stepperVars>>
    /\ \/ \E r \in Runs : viewRunDetail(r)
       \/ hideRunDetail
       \/ \E t \in timers : Tick(t)
       \/ \E cy \in BagToSet(cycles) : StatusOk(cy)
       \/ \E cy \in BagToSet(cycles) : StatusErr(cy)
       \/ \E cy \in BagToSet(cycles) : ProgressOk(cy)
       \/ \E cy \in BagToSet(cycles) : ProgressErr(cy)
       \/ \E cy \in BagToSet(cycles) : LatexOk(cy)
       \/ \E cy \in BagToSet(cycles) : LatexErr(cy)
       \/ \E cy \in BagToSet(cycles), outline \in BOOLEAN : ArtifactsOk(cy, outline)
       \/ \E cy \in BagToSet(cycles) : ArtifactsErr(cy)
       \/ \E r \in Runs : BackendProgress(r)
       \/ \E r \in Runs : BackendComplete(r)
       \/ \E r \in Runs : BackendFail(r)

\* Next with viewRunDetail reached through the page's View button only.
NextUI ==
    /\ UNCHANGED <<ingestVars, form, clientVars, stepperVars>>
    /\ \/ \E r \in Runs : viewFromList(r)
       \/ hideRunDetail
       \/ \E t \in timers : Tick(t)
       \/ \E cy \in BagToSet(cycles) : StatusOk(cy)
       \/ \E cy \in BagToSet(cycles) : StatusErr(cy)
       \/ \E cy \in BagToSet(cycles) : ProgressOk(cy)
       \/ \E cy \in BagToSet(cycles) : ProgressErr(cy)
       \/ \E cy \in BagToSet(cycles) : LatexOk(cy)
       \/ \E cy \in BagToSet(cycles) : LatexErr(cy)
       \/ \E cy \in BagToSet(cycles), outline \in BOOLEAN : ArtifactsOk(cy, outline)
       \/ \E cy \in BagToSet(cycles) : ArtifactsErr(cy)
       \/ \E r \in Runs : BackendProgress(r)
       \/ \E r \in Runs : BackendComplete(r)
       \/ \E r \in Runs : BackendFail(r)

\* One run listed; viewRunDetail and hideRunDetail called in any order.
Spec == Init /\ [][Next]_vars

\* Two runs listed; the page driven through its buttons.
SpecTwo == InitTwo /\ [][NextUI]_vars

\* The documents tab: selections, uploads and the list reloads they cause.
SpecIngest == Init /\ [][NextIngest]_vars

\* The documents tab of the page with the document form.
SpecForm == Init /\ [][NextForm]_vars

\* APIClient: each operation against each answer of the backend.
SpecClient == Init /\ [][NextClient]_vars

\* createProgressStepper applied to each status.
SpecStepper == InitStepper /\ [][NextStepper]_vars

TypeOK ==
    /\ runs \subseteq Runs
    /\ currentRunId \in runs \cup {NULL}
    /\ pollingInterval \in 0..MaxTimers
    /\ timers \subseteq 1..MaxTimers
    /\ nextTimer \in 1..(MaxTimers + 1)
    /\ IsABag(cycles)
    /\ \A cy \in BagToSet(cycles) :
          /\ cy.pc \in {"status", "progress", "latex", "artifacts"}
          /\ cy.run \in runs
          /\ cy.req \in runs \cup {NULL}
    /\ sections \in runs \cup {NULL}
    /\ artifacts \in runs \cup {NULL}
    /\ latexContent \in runs \cup {NULL}
    /\ \A r \in Runs : backend[r].status \in Lifecycles /\ backend[r].done \in 0..MaxJobs
    /\ seen \subseteq {"completed", "failed"}
    /\ latexFetches \in 0..MaxCycles
    /\ selectedFiles \in Selections \cup {NoFiles}
    /\ uploadBtnDisabled \in BOOLEAN
    /\ upload.pc \in {"idle", "rejected", "single", "batch", "text", "ok",
                      "failed"}
    /\ upload.files \in Selections \cup {<<>>}
    /\ uploadBtnDisabled => upload.pc \in {"single", "batch"}
    /\ Len(calls) \in 0..(MaxFiles + 1)
    /\ listLoads \in 0..MaxLoads
    /\ documentsList \in {"loading", "cards", "No documents uploaded yet",
                          "Failed to load documents"}
    /\ outcome \in {NULL, "No files selected", "uploaded", "all uploaded",
                    "some failed", "Upload failed", "Title is required",
                    "Content is required", "Failed to upload document"}
    /\ form.title \in Titles \cup {StripExtension(f) : f \in Files}
    /\ form.author \in Authors
    /\ http.op \in Operations \cup {"none"}
    /\ http.response \in Responses
    /\ http.fetches \in 0..1
    /\ stepperStatus \in StepperStatuses
    /\ stepper \in {NotRendered} \cup [1..Len(steps) -> {"done", "running", "pending"}]
    /\ settled.kind \in {"pending", "throw", "return"}
    /\ form.year \in Years
    /\ form.content \in Contents \cup {<<"f", "i", "l", "e", "s">>}

\* ------------------------------------------------------------- claims
\* What the run detail page shows and caches.
display == <<view, sections, artifacts, latexContent>>

\* The invocations of cycles that took a step: one copy fewer in cycles'.
Stepped == {cy \in BagToSet(cycles) : Copies(cycles', cy) < Copies(cycles, cy)}

\* A fetch is issued in the step: some suspended call is new in cycles'.
IssuesFetch == \E cy \in BagToSet(cycles') : Copies(cycles', cy) > Copies(cycles, cy)

\* C1: at most one polling timer is live, and a live timer is the one
\* stored in pollingInterval (no handle is overwritten while live).
C1_OneTimer ==
    /\ Cardinality(timers) <= 1
    /\ timers \subseteq {pollingInterval}

\* C1 witness: viewRunDetail has just restarted polling over a live timer.
C1_Witness == lastEvent = "review" /\ timers = {pollingInterval} /\ nextTimer > 2

\* C2 (as claimed): a poll cycle that fails on its status or progress fetch
\* leaves a live polling timer live.
C2_FailureKeepsPolling ==
    [][(lastEvent' \in {"statusErr", "progressErr"} /\ pollingInterval # NoTimer)
          => pollingInterval' = pollingInterval /\ timers' = timers]_vars

\* C3: once a cycle has found the status completed, no polling timer is
\* live or stored until the next viewRunDetail.
C3_CompletedStopsPolling ==
    "completed" \in seen => pollingInterval = NoTimer /\ timers = {}

\* C3 witness: a cycle of an observed run has just found it completed.
C3_Witness ==
    /\ "completed" \in seen
    /\ lastEvent = "progressOk"
    /\ currentRunId # NULL
    /\ latexFetches = 1

\* C4 (as claimed): at most one poll cycle is in flight.
C4_OneCycleInFlight == InFlight <= 1

\* C5 (as claimed): while no run is observed, no fetch is issued.
C5_NoFetchWhenIdle ==
    [][(currentRunId = NULL /\ currentRunId' = NULL) => ~IssuesFetch]_vars

\* C6 (as claimed): while no run is observed, a result that arrives changes
\* nothing of the display or of the cached LaTeX.
C6_IdleDiscardsResults ==
    [][(currentRunId = NULL /\ currentRunId' = NULL) => UNCHANGED display]_vars

\* C7 (as claimed): a step of a cycle started under an earlier observation
\* of another run changes neither the display, nor the cached LaTeX, nor
\* the polling timer of the current observation.
C7_ObservationsIsolated ==
    [][\A cy \in Stepped :
          (cy.stale /\ currentRunId # NULL /\ cy.run # currentRunId)
             => UNCHANGED <<display, pollingInterval, timers>>]_vars

\* C8 (as claimed): the cycles of one observation fetch the LaTeX at most once.
C8_LatexFetchedOnce == latexFetches <= 1

\* C9 (as claimed): once a cycle has found the status failed, no polling
\* timer is live.
C9_FailedStopsPolling ==
    "failed" \in seen => pollingInterval = NoTimer /\ timers = {}

\* C10: the steps of a cycle up to and including its failure (status
\* arrives, status fetch fails, progress fetch fails) change nothing of
\* the display.
C10_FailedCycleKeepsView ==
    [][lastEvent' \in {"statusOk", "statusErr", "progressErr"}
          => UNCHANGED display]_vars

\* C10 witness: the progress fetch of a cycle has just failed, after its
\* status fetch succeeded, with an earlier cycle's rendering on display.
C10_Witness == lastEvent = "progressErr" /\ view # NoView /\ sections # NULL

\* The suspended calls that are new in cycles': the fetches the step issues.
Started == {cy \in BagToSet(cycles') : Copies(cycles', cy) > Copies(cycles, cy)}

\* C11 (as claimed): a run that is observed, completed at the backend and
\* not yet found completed is not abandoned: a timer is live or a cycle is
\* in flight, so that the completion can still be observed.
C11_RunNotAbandoned ==
    (/\ currentRunId # NULL
     /\ backend[currentRunId].status = "completed"
     /\ "completed" \notin seen)
        => (timers # {} \/ cycles # EmptyBag)

\* C12: a cycle's fetches follow one another in the order status, detailed
\* progress, LaTeX (only for a completed status, with the timer cancelled),
\* artifacts, each issued by the step that settles the one before; a tick
\* or viewRunDetail issues the status fetch; the display is rendered only
\* by the step that settles the detailed-progress fetch; a failure of the
\* status or progress fetch issues nothing and renders nothing.
C12_StepOrder ==
    [][lastEvent' \notin {"view", "review"} =>
          /\ \A cy \in Stepped : \A nx \in Started :
                /\ <<cy.pc, nx.pc>> \in {<<"status", "progress">>,
                                         <<"progress", "latex">>,
                                         <<"progress", "artifacts">>,
                                         <<"latex", "artifacts">>}
                /\ nx.pc = "latex" =>
                      /\ cy.status.status = "completed"
                      /\ pollingInterval' = NoTimer
                /\ (cy.pc = "progress" /\ nx.pc = "artifacts") =>
                      cy.status.status # "completed"
          /\ \A nx \in Started : Stepped = {} => nx.pc = "status"
          /\ <<view, sections>> # <<view', sections'>> =>
                \E cy \in Stepped : cy.pc = "progress"
          /\ lastEvent' \in {"statusErr", "progressErr"} =>
                Started = {} /\ UNCHANGED display]_vars

\* C12 witness: a cycle has run all five steps for a completed run.
C12_Witness ==
    /\ lastEvent = "artifactsOk"
    /\ "completed" \in seen
    /\ view # NoView
    /\ latexContent # NULL
    /\ artifacts # NULL

\* C13: a failed LaTeX fetch creates no timer, leaves the timers as they
\* are (none, once the status was found completed) and issues no second
\* LaTeX fetch.
C13_LatexFailureStaysTerminal ==
    [][lastEvent' = "latexErr" =>
          /\ UNCHANGED <<pollingInterval, timers, nextTimer>>
          /\ "completed" \in seen => timers' = {}
          /\ \A nx \in Started : nx.pc # "latex"]_vars

\* C13 witness: the LaTeX fetch of a completed, observed run has just failed.
C13_Witness ==
    /\ lastEvent = "latexErr"
    /\ "completed" \in seen
    /\ currentRunId # NULL
    /\ latexContent = NULL

\* C14: a failed artifacts fetch changes neither the polling timer, nor the
\* toast (the catch branch is not taken), nor the display.
C14_ArtifactsFailureSwallowed ==
    [][lastEvent' = "artifactsErr" =>
          UNCHANGED <<pollingInterval, timers, toast, display>>]_vars

\* C14 witness: the artifacts fetch has just failed after a rendering, with
\* the timer live and no error toast ever shown.
C14_Witness ==
    /\ lastEvent = "artifactsErr"
    /\ pollingInterval # NoTimer
    /\ view # NoView
    /\ toast = NULL

\* C15: a failed status fetch leaves the error toast on display.
C15_StatusFailureSurfaced ==
    [][lastEvent' = "statusErr" => toast' = "Failed to load run status"]_vars

\* C15 witness: a status fetch has just failed.
C15_Witness == lastEvent = "statusErr" /\ toast # NULL

\* C16: hideRunDetail leaves no timer live or stored and no run observed,
\* whatever the state it is called in, changes nothing else, and a second
\* stopPolling after it changes nothing.
C16_StopIdempotent ==
    [][lastEvent' = "hide" =>
          /\ timers' = {}
          /\ pollingInterval' = NoTimer
          /\ currentRunId' = NULL
          /\ stopPolling(timers', pollingInterval') = timers'
          /\ UNCHANGED <<cycles, display, toast, nextTimer>>]_vars

\* C16 witness: hideRunDetail was called when a timer was never started.
C16_Witness == lastEvent = "hide" /\ nextTimer = 1

\* C17 (as claimed): no tick fires before the initial cycle of the first
\* observation has rendered or failed.
C17_InitialCycleBeforeTicks ==
    ~(/\ lastEvent = "tick"
      /\ nextTimer = 2
      /\ view = NoView
      /\ toast = NULL)

\* C18 (as claimed): within the first observation, with no transport error
\* and no completed status found, each rendering shows progress and job
\* counts no lower than the rendering before it.
C18_RenderedProgressMonotone ==
    [][(/\ lastEvent' = "progressOk"
        /\ nextTimer' = 2
        /\ toast' = NULL
        /\ "completed" \notin seen'
        /\ view # NoView)
          => view'.progress >= view.progress /\ view'.done >= view.done]_vars

\* C19 (as claimed): hideRunDetail cancels the timer and clears what the
\* session rendered and cached.
C19_HideClearsSession ==
    [][lastEvent' = "hide" =>
          /\ timers' = {}
          /\ view' = NoView
          /\ sections' = NULL
          /\ latexContent' = NULL]_vars

\* The upload requests among the requests of the latest uploadSelectedFiles.
Posts == SelectSeq(calls, LAMBDA c : c.method = "POST")

\* C20 (as claimed): an uploadSelectedFiles that found a selection issues
\* exactly one network call: to /documents/upload-batch with all the files
\* in order for two or more files, to /documents/upload for one file.
C20_ExactlyOneNetworkCall ==
    upload.pc \in {"single", "batch", "ok", "failed"} =>
        /\ Len(calls) = 1
        /\ calls[1].url = IF Len(upload.files) >= 2
                          THEN "/documents/upload-batch"
                          ELSE "/documents/upload"

\* C20 (amended): an uploadSelectedFiles that found a selection issues
\* exactly one upload request, its first request: for two or more files a
\* POST /documents/upload-batch carrying every file once, in selection
\* order, for one file a POST /documents/upload carrying that file; after
\* a successful upload it issues one more request, GET /documents/list,
\* and otherwise none.
C20_OneUploadRequest ==
    upload.pc \in {"single", "batch", "ok", "failed"} =>
        LET n == Len(upload.files)
        IN /\ Len(Posts) = 1
           /\ calls[1] = Posts[1]
           /\ n >= 2 =>
                 /\ Posts[1].url = "/documents/upload-batch"
                 /\ Posts[1].form = [i \in 1..n |-> <<"files", upload.files[i]>>]
           /\ n = 1 =>
                 /\ Posts[1].url = "/documents/upload"
                 /\ Posts[1].form[1] = <<"file", upload.files[1]>>
           /\ Len(calls) = IF upload.pc = "ok" THEN 2 ELSE 1
           /\ upload.pc = "ok" => calls[2] = listDocuments

\* C20 witness: a batch of two different files was uploaded successfully.
C20_Witness ==
    /\ upload.pc = "ok"
    /\ Len(upload.files) >= 2
    /\ upload.files[1] # upload.files[2]
    /\ lastEvent = "uploadOk"

\* C21: uploadSelectedFiles with no selection shows the error toast, makes
\* no request, and changes neither the selection, the upload button, the
\* pending list loads nor the documents list.
C21_EmptyIngestRejected ==
    [][(lastEvent' = "upload" /\ selectedFiles = NoFiles) =>
          /\ toast' = "No files selected"
          /\ outcome' = "No files selected"
          /\ upload'.pc = "rejected"
          /\ calls' = <<>>
          /\ UNCHANGED <<selectedFiles, uploadBtnDisabled, listLoads,
                         documentsList>>]_vars

\* C21 witness: an upload was asked for with nothing selected.
C21_Witness ==
    /\ lastEvent = "upload"
    /\ upload.pc = "rejected"
    /\ selectedFiles = NoFiles
    /\ calls = <<>>

\* C24 (as claimed): the request of a single-file upload, for which the
\* caller supplies no metadata, carries no title, author or year field.
C24_NoSynthesizedMetadata ==
    (upload.pc \in {"single", "ok", "failed"} /\ Len(upload.files) = 1) =>
        \A i \in 1..Len(calls[1].form) :
            calls[1].form[i][1] \notin {"title", "author", "year"}

\* C25: when a batch upload is answered with failed files, the call ends
\* normally (not in the catch branch), reports the backend's successful and
\* failed counts, and issues no request other than the list reload.
C25_PartialFailureReported ==
    [][(/\ lastEvent' = "uploadOk"
        /\ upload.pc = "batch"
        /\ upload'.response.failed > 0)
          => /\ upload'.pc = "ok"
             /\ outcome' = "some failed"
             /\ upload'.report.successful = upload'.response.successful
             /\ upload'.report.failed = upload'.response.failed
             /\ calls' = Append(calls, listDocuments)]_vars

\* C25 witness: a batch was answered with one file uploaded and one failed.
C25_Witness ==
    /\ lastEvent = "uploadOk"
    /\ outcome = "some failed"
    /\ upload.response.successful = 1
    /\ upload.response.failed = 1

C28_NothingLeftOver ==
    [][(lastEvent \in {"uploadOk", "uploadErr"} /\ lastEvent' = "upload")
          => upload'.pc = "rejected"]_vars

\* C22: a submission of the form with no file stored and an empty (or
\* blank) title or content shows a validation error and makes no request.
C22_TextValidatedLocally ==
    [][(/\ lastEvent' = "submit"
        /\ selectedFiles = NoFiles
        /\ (Trim(form.title) = <<>> \/ Trim(form.content) = <<>>))
          => /\ calls' = <<>>
             /\ upload'.pc = "rejected"
             /\ outcome' \in {"Title is required", "Content is required"}
             /\ toast' = outcome'
             /\ UNCHANGED <<selectedFiles, form, listLoads>>]_vars

\* C22 witness: a text submission with a title and no content was rejected.
C22_Witness ==
    /\ lastEvent = "submit"
    /\ selectedFiles = NoFiles
    /\ form.title = <<"T">>
    /\ form.content = <<>>
    /\ outcome = "Content is required"
    /\ calls = <<>>

\* C23 (as claimed): a submission with exactly one file stored posts it to
\* /documents/upload, with or without a title.
C23_SingleFileAlwaysSubmitted ==
    [][(lastEvent' = "submit" /\ Len(selectedFiles) = 1)
          => /\ upload'.pc = "single"
             /\ Len(calls') = 1
             /\ calls'[1].url = "/documents/upload"]_vars

\* C29: an operation whose response has a status outside 200..299 settles
\* by throwing, whatever the body is.
C29_NonOkRejects ==
    (/\ settled # Pending
     /\ http.response.arrived
     /\ ~Ok(http.response))
        => settled.kind = "throw"

\* C29 witness: uploadDocumentsBatch has thrown for a 500 response whose
\* body is not JSON.
C29_Witness ==
    /\ http.op = "uploadDocumentsBatch"
    /\ http.response.status = 500
    /\ http.response.body.json = "unparseable"
    /\ settled.kind = "throw"

\* C30 (as claimed): the error thrown for a response outside 200..299
\* carries the detail of the body when the body is an object with a
\* non-empty detail, and otherwise "HTTP " with the status.
C30_DetailOrStatusMessage ==
    (/\ settled # Pending
     /\ http.response.arrived
     /\ ~Ok(http.response))
        => LET b == http.response.body
           IN settled.message =
                 IF b.json = "object" /\ b.has /\ b.detail # ""
                 THEN <<b.detail>>
                 ELSE <<"HTTP ", http.response.status>>

\* C35: while a polling timer is live or stored, a run is observed.
C35_TimerImpliesRun ==
    (timers # {} \/ pollingInterval # NoTimer) => currentRunId # NULL

\* C35 witness: a tick has started a cycle for the observed run after an
\* earlier observation was hidden.
C35_Witness ==
    /\ lastEvent = "tick"
    /\ currentRunId # NULL
    /\ nextTimer > 2
    /\ cycles # EmptyBag

\* C36 (as claimed): the file downloadLatex saves for an observed run holds
\* the LaTeX fetched for the run its name gives.
C36_DownloadMatchesRun ==
    (downloadLatex.saved /\ currentRunId # NULL)
        => downloadLatex.content = downloadLatex.filename

\* C31 (as claimed): an operation whose 2xx response has a body that is not
\* JSON settles by throwing, and no operation returns raw text.
C31_MalformedBodyRejects ==
    /\ (/\ settled # Pending
        /\ http.response.arrived
        /\ Ok(http.response)
        /\ http.response.body.json = "unparseable")
           => settled.kind = "throw"
    /\ settled.kind = "return" => settled.value # "text"

\* The operation reads the body of its 2xx response with response.json().
ParsesBody ==
    http.op # "request" \/ http.response.type = "application/json"

\* C32: a settled operation has thrown the error of its failure, a rejected
\* fetch's TypeError, the Error of a status outside 200..299, or the
\* SyntaxError of response.json(), and has made one fetch and no more.
C32_ErrorsRethrown ==
    settled # Pending =>
        /\ ~http.response.arrived
              => settled = Throw("TypeError", <<"Failed to fetch">>)
        /\ (http.response.arrived /\ ~Ok(http.response))
              => /\ settled.kind = "throw"
                 /\ settled.error \in {"Error", "TypeError"}
        /\ (/\ http.response.arrived
            /\ Ok(http.response)
            /\ ParsesBody
            /\ http.response.body.json = "unparseable")
              => settled = Throw("SyntaxError", <<"Unexpected token">>)
        /\ http.fetches = 1

\* C32 witness: uploadDocumentFile has thrown the TypeError of a rejected
\* fetch.
C32_Witness ==
    /\ http.op = "uploadDocumentFile"
    /\ ~http.response.arrived
    /\ settled.kind = "throw"
    /\ settled.error = "TypeError"

\* C33 (as claimed): every operation a poll cycle calls on the client is one
\* the client defines.
C33_CycleOperationsDefined ==
    \A cy \in BagToSet(cycles) : CycleCall(cy) \in APIClientOperations

\* A single-file submission of the form has just been made with a title,
\* an author and a year in its fields.
ExplicitSingleFile ==
    /\ lastEvent = "submit"
    /\ upload.pc = "single"
    /\ Trim(form.title) # <<>>
    /\ Trim(form.author) # <<>>
    /\ form.year # <<>>

\* C34 (as claimed): a single-file submission with a title, an author and a
\* year transmits exactly the three values of the fields.
C34_MetadataSentUnmodified ==
    ExplicitSingleFile =>
        calls = << [method |-> "POST",
                    url |-> "/documents/upload",
                    form |-> << <<"file", selectedFiles[1]>>,
                                <<"title", form.title>>,
                                <<"author", form.author>>,
                                <<"year", form.year>> >>] >>

\* C34: a single-file submission with a title, an author and a year makes
\* one POST /documents/upload carrying the file, the title and the author
\* without their surrounding white space, and the year as typed, none left
\* out.
C34_TrimmedMetadataSent ==
    ExplicitSingleFile =>
        calls = << [method |-> "POST",
                    url |-> "/documents/upload",
                    form |-> << <<"file", selectedFiles[1]>>,
                                <<"title", Trim(form.title)>>,
                                <<"author", Trim(form.author)>>,
                                <<"year", form.year>> >>] >>

\* C34 witness: a file was submitted with a padded title, a padded author
\* and a year.
C34_Witness ==
    /\ ExplicitSingleFile
    /\ form.title = <<" ", "T">>
    /\ form.author = <<"A", " ">>
    /\ form.year = <<"1">>

\* C37: the upload button is disabled exactly while the request of
\* uploadSelectedFiles is in flight; when the request fails the button is
\* enabled again and the selection, the requests made and the list loads
\* are as they were; when it succeeds the button is enabled again, the
\* selection is cleared and one list reload is started.
C37_ButtonTracksUpload ==
    [][/\ uploadBtnDisabled' <=> upload'.pc \in {"single", "batch"}
       /\ lastEvent' = "uploadErr"
             => /\ uploadBtnDisabled /\ ~uploadBtnDisabled'
                /\ UNCHANGED <<selectedFiles, calls, listLoads, documentsList>>
       /\ lastEvent' = "uploadOk"
             => /\ uploadBtnDisabled /\ ~uploadBtnDisabled'
                /\ selectedFiles' = NoFiles
                /\ calls' = Append(calls, listDocuments)
                /\ listLoads' = listLoads + 1
       /\ (lastEvent' = "upload" /\ selectedFiles # NoFiles)
             => uploadBtnDisabled']_vars

\* C37 witness: an upload has failed, the button is enabled again and the
\* selection is still there.
C37_Witness ==
    /\ lastEvent = "uploadErr"
    /\ ~uploadBtnDisabled
    /\ Len(selectedFiles) = 2
    /\ upload.pc = "failed"

\* job_counts.done of the status given to the stepper, 0 when missing.
StepperDone ==
    IF stepperStatus.has_job_counts /\ stepperStatus.job_counts.has_done
    THEN stepperStatus.job_counts.done
    ELSE 0

\* C38: the stepper built for a status with d jobs done has step i (0..5)
\* 'done' iff d > 2i, 'running' iff d = 2i and 'pending' iff d < 2i, so that
\* no step before a done step is anything but done, no step after a pending
\* step is anything but pending, and at most one step is running.
C38_StepperFollowsDone ==
    stepper # NotRendered =>
        /\ Len(stepper) = 6
        /\ \A i \in 0..5 :
              /\ stepper[i + 1] = "done" <=> StepperDone > 2 * i
              /\ stepper[i + 1] = "running" <=> StepperDone = 2 * i
              /\ stepper[i + 1] = "pending" <=> StepperDone < 2 * i
        /\ \A i, j \in 1..6 :
              i < j => /\ stepper[j] = "done" => stepper[i] = "done"
                       /\ stepper[i] = "pending" => stepper[j] = "pending"
        /\ Cardinality({i \in 1..6 : stepper[i] = "running"}) <= 1

\* C38 witness: with four jobs done the stepper shows two done steps, the
\* third running and three pending.
C38_Witness ==
    /\ stepperStatus.has_job_counts
    /\ stepperStatus.job_counts.done = 4
    /\ stepperStatus.job_counts.running = 1
    /\ stepper = <<"done", "done", "running", "pending", "pending", "pending">>
====
